---- MODULE Spec2Model ----
(***************************************************************************)
(* Model of pnl_analysis.py: one run of main() over one trade log.         *)
(*                                                                         *)
(* The input file is a header (the set of column names) and a sequence of  *)
(* rows whose cells are text.  A DataFrame is a sequence of records; every *)
(* row carries idx, its pandas index label (the position in the file),     *)
(* which filtering and sorting preserve.  A float64 cell is <<n>> for the  *)
(* number n and <<>> for NaN; an object cell that was empty in the file is *)
(* NA.  Values are integers (an all-integer log).                          *)
(***************************************************************************)
EXTENDS Integers, Sequences, FiniteSets, TLC

VARIABLES
    columns,       \* header of the log file: the column names it has
    raw,           \* rows of the log file, cells as text
    pc,            \* the statement of main() that runs next
    exc,           \* the exception that ended the run, or "none"
    data,          \* main: data
    filled,        \* main: filled
    total_pnl,     \* main: total_pnl
    pnl_by_asset,  \* main: pnl_by_asset, a Series as a sequence of items
    cumulative,    \* main: cumulative
    i,             \* position of the for loop over pnl_by_asset.items()
    image,         \* the output image file: "none" or "written"
    out            \* lines printed to the console so far

vars == <<columns, raw, pc, exc, data, filled, total_pnl,
          pnl_by_asset, cumulative, i, image, out>>

----------------------------------------------------------------------------
(* Bounds of the model *)

MaxRows == 3

----------------------------------------------------------------------------
(* Values *)

NA == "<NA>"
NaN == <<>>
NoCol == "<no column>"

NsPerSec == 1000000000

Required == {"action", "orderSide", "orderProduct", "tradePx", "tradeAmt",
             "currentTime"}

\* Headers: the full one, and each one that lacks a single required column.
Headers == {Required} \cup {Required \ {c} : c \in Required}

DigitChars == <<"0", "1", "2", "3", "4", "5", "6", "7", "8", "9">>

IsDigit(c) == \E d \in 1..10 : DigitChars[d] = c

DigitVal(c) == (CHOOSE d \in 1..10 : DigitChars[d] = c) - 1

\* Instrument identifiers in the order groupby sorts its keys.
ProductOrder == <<"AAA", "BBB">>

RECURSIVE ParseDigits(_, _)
ParseDigits(t, acc) ==
    IF t = <<>> THEN acc
    ELSE ParseDigits(Tail(t), 10 * acc + DigitVal(Head(t)))

AllDigits(t) == Len(t) > 0 /\ \A k \in 1..Len(t) : IsDigit(t[k])

\* A to_numeric that reads an empty cell as 0 instead of NaN.
ToNumericEmptyIsZero(t) ==
    IF t = <<>> THEN <<0>>
    ELSE IF AllDigits(t) THEN <<ParseDigits(t, 0)>>
    ELSE IF Head(t) = "-" /\ AllDigits(Tail(t)) THEN <<0 - ParseDigits(Tail(t), 0)>>
    ELSE NaN

\* pd.to_numeric(errors="coerce") of one cell: the number, or NaN.
ToNumeric(t) ==
    IF AllDigits(t) THEN <<ParseDigits(t, 0)>>
    ELSE IF Len(t) > 0 /\ Head(t) = "-" /\ AllDigits(Tail(t))
         THEN <<0 - ParseDigits(Tail(t), 0)>>
    ELSE NaN

isna(x) == x = NaN

\* df[["tradePx", "tradeAmt"]].isna().any(axis=1) for one row
AnyNa(r) == isna(r.tradePx) \/ isna(r.tradeAmt)

\* A filter that keeps every row.
IsFilledKeepAll(r) == TRUE

\* df["action"] == "filled" for one row

IsFilled(r) == r.action = "filled"

\* A sign rule that defaults to -1: +1 for "sell" only.
SignSellIsPlus(side) == IF side = "sell" THEN 1 ELSE -1

\* np.where(filled["orderSide"] == "buy", -1, 1) for one row

Sign(side) == IF side = "buy" THEN -1 ELSE 1

\* filled["tradePx"] * filled["tradeAmt"] * sign for one row
SignedPnl(r) == r.tradePx[1] * r.tradeAmt[1] * Sign(r.orderSide)

\* Series.sum() of the signed_pnl column; 0 for an empty table.
RECURSIVE SeriesSum(_)
SeriesSum(s) == IF s = <<>> THEN 0 ELSE Head(s).signed_pnl + SeriesSum(Tail(s))

\* A sum that leaves out the first row.
SeriesSumSkipFirst(s) == IF s = <<>> THEN 0 ELSE SeriesSum(Tail(s))

\* total_gross_pnl: filled['signed_pnl'].sum()
TotalSum(s) == SeriesSum(s)

\* A running sum that restarts at every row.
CumSumRestart(s, k) == s[k].signed_pnl

\* Series.cumsum() of the signed_pnl column at position k.

CumSum(s, k) == SeriesSum(SubSeq(s, 1, k))

\* pd.to_datetime(t, unit="ns"): the absolute time t nanoseconds after the epoch.
ToDatetime(t) == [sec |-> t \div NsPerSec, nsec |-> t % NsPerSec]

\* Order of two timestamps.
TimeLe(a, b) == a.sec < b.sec \/ (a.sec = b.sec /\ a.nsec <= b.nsec)

Perms(n) == {p \in [1..n -> 1..n] : \A a, b \in 1..n : a # b => p[a] # p[b]}

\* A sort_values that leaves the rows in input order.
SortValuesNoSort(s) == {s}

\* DataFrame.sort_values("currentTime"), kind left at its default "quicksort",
\* which is not a stable sort: every ascending arrangement of the rows is a
\* possible result.

SortValues(s) ==
    {[k \in 1..Len(s) |-> s[p[k]]] : p \in
        {q \in Perms(Len(s)) :
            \A a, b \in 1..Len(s) :
                a < b => s[q[a]].currentTime <= s[q[b]].currentTime}}

\* groupby('orderProduct')['signed_pnl'].sum(): one item per key in sorted key
\* order; groupby leaves out the rows whose key is missing (dropna=True).
GroupKeys(s) ==
    SelectSeq(ProductOrder, LAMBDA a : \E k \in 1..Len(s) : s[k].orderProduct = a)

GroupBySum(s) ==
    [g \in 1..Len(GroupKeys(s)) |->
        [asset |-> GroupKeys(s)[g],
         pnl |-> SeriesSum(SelectSeq(s, LAMBDA r : r.orderProduct = GroupKeys(s)[g]))]]

\* One printed line: what it reports, for which instrument or file, which value.
Line(kind, key, value) == [kind |-> kind, key |-> key, value |-> value]

OutputImage == "cumulative_pnl.png"

----------------------------------------------------------------------------
(* Input logs *)

\* A row of a log whose header is h: the cells of the columns h lacks do not exist.
Cell(h, c, v) == IF c \in h THEN v ELSE NoCol

FileRow(h, k, r) ==
    [idx |-> k,
     action |-> Cell(h, "action", r.action),
     orderSide |-> Cell(h, "orderSide", r.orderSide),
     orderProduct |-> Cell(h, "orderProduct", r.orderProduct),
     tradePx |-> Cell(h, "tradePx", r.tradePx),
     tradeAmt |-> Cell(h, "tradeAmt", r.tradeAmt),
     currentTime |-> Cell(h, "currentTime", r.currentTime)]

\* Logs that exercise the loader: unparseable, empty, negative and multi-digit cells.
LoadRows ==
    [action : {"filled", "cancelled"}, orderSide : {"buy"}, orderProduct : {"AAA"},
     tradePx : {<<"1", "2">>, <<"b", "a", "d">>, <<>>},
     tradeAmt : {<<"-", "3">>, <<"x">>},
     currentTime : {0}]

\* Logs that exercise the sign rule and the grouping: every side, every instrument.
PnlRows ==
    [action : {"filled"}, orderSide : {"buy", "sell", "hold"},
     orderProduct : {"AAA", "BBB", NA},
     tradePx : {<<"2">>}, tradeAmt : {<<"3">>},
     currentTime : {0}]

\* Logs that exercise the cumulative series: equal and distinct timestamps on
\* both sides of a second boundary.
SeriesRows ==
    [action : {"filled"}, orderSide : {"buy", "sell"}, orderProduct : {"AAA"},
     tradePx : {<<"2">>}, tradeAmt : {<<"1">>, <<"3">>},
     currentTime : {0, NsPerSec - 1, NsPerSec}]

\* Logs that exercise the driver: filled and other events of several instruments.
DriverRows ==
    [action : {"filled", "cancelled"}, orderSide : {"buy", "sell"},
     orderProduct : {"AAA", "BBB", NA},
     tradePx : {<<"2">>}, tradeAmt : {<<"3">>},
     currentTime : {0}]

InitWith(Rows) ==
    /\ \E h \in Headers, n \in 0..MaxRows :
          \E rows \in [1..n -> Rows] :
             /\ columns = h
             /\ raw = [k \in 1..n |-> FileRow(h, k - 1, rows[k])]
    /\ pc = "load"
    /\ exc = "none"
    /\ data = <<>>
    /\ filled = <<>>
    /\ total_pnl = 0
    /\ pnl_by_asset = <<>>
    /\ cumulative = <<>>
    /\ i = 0
    /\ image = "none"
    /\ out = <<>>

Init == InitWith(LoadRows)

InitPnl == InitWith(PnlRows)

InitSeries == InitWith(SeriesRows)

InitDriver == InitWith(DriverRows)

----------------------------------------------------------------------------
(* main() and the functions it calls *)

\* The statements of main in program order.
PcOrder == <<"load", "filter", "total", "by_asset", "cumulative", "print_total",
             "print_header", "print_asset", "plot", "confirm", "done">>

Rank(p) == CHOOSE k \in 1..Len(PcOrder) : PcOrder[k] = p

\* The statement at `at` has completed.
Returned(at) == Rank(pc) > Rank(at)

Running(at) == pc = at /\ exc = "none"

\* df[col] of a column the table lacks raises KeyError, which main does not catch.
Raise(e) ==
    /\ exc' = e
    /\ UNCHANGED <<columns, raw, pc, data, filled, total_pnl, pnl_by_asset,
                   cumulative, i, image, out>>

\* load_data, one row: the two numeric columns coerced.
Coerced(r) ==
    [r EXCEPT !.tradePx = ToNumeric(r.tradePx), !.tradeAmt = ToNumeric(r.tradeAmt)]

LoadData ==
    /\ Running("load")
    /\ {"tradePx", "tradeAmt"} \subseteq columns
    /\ LET df == [k \in 1..Len(raw) |-> Coerced(raw[k])]
           invalid_rows == SelectSeq(df, AnyNa)
       IN  IF invalid_rows # <<>>
           THEN /\ out' = Append(out, Line("warning", "", Len(invalid_rows)))
                /\ data' = SelectSeq(df, LAMBDA r : ~AnyNa(r))
           ELSE /\ out' = out
                /\ data' = df
    /\ pc' = "filter"
    /\ UNCHANGED <<columns, raw, exc, filled, total_pnl, pnl_by_asset,
                   cumulative, i, image>>

LoadDataKeyError ==
    /\ Running("load")
    /\ ~({"tradePx", "tradeAmt"} \subseteq columns)
    /\ Raise("KeyError")

CalculateFilledTrades ==
    /\ Running("filter")
    /\ {"action", "orderSide"} \subseteq columns
    /\ LET kept == SelectSeq(data, IsFilled)
       IN  filled' = [k \in 1..Len(kept) |->
                        [idx |-> kept[k].idx,
                         action |-> kept[k].action,
                         orderSide |-> kept[k].orderSide,
                         orderProduct |-> kept[k].orderProduct,
                         tradePx |-> kept[k].tradePx,
                         tradeAmt |-> kept[k].tradeAmt,
                         currentTime |-> kept[k].currentTime,
                         signed_pnl |-> SignedPnl(kept[k])]]
    /\ pc' = "total"
    /\ UNCHANGED <<columns, raw, exc, data, total_pnl, pnl_by_asset,
                   cumulative, i, image, out>>

CalculateFilledTradesKeyError ==
    /\ Running("filter")
    /\ ~({"action", "orderSide"} \subseteq columns)
    /\ Raise("KeyError")

TotalGrossPnl ==
    /\ Running("total")
    /\ total_pnl' = TotalSum(filled)
    /\ pc' = "by_asset"
    /\ UNCHANGED <<columns, raw, exc, data, filled, pnl_by_asset,
                   cumulative, i, image, out>>

GrossPnlByAsset ==
    /\ Running("by_asset")
    /\ "orderProduct" \in columns
    /\ pnl_by_asset' = GroupBySum(filled)
    /\ pc' = "cumulative"
    /\ UNCHANGED <<columns, raw, exc, data, filled, total_pnl,
                   cumulative, i, image, out>>

GrossPnlByAssetKeyError ==
    /\ Running("by_asset")
    /\ "orderProduct" \notin columns
    /\ Raise("KeyError")

CumulativeGrossPnl ==
    /\ Running("cumulative")
    /\ "currentTime" \in columns
    /\ \E filled_sorted \in SortValues(filled) :
          cumulative' = [k \in 1..Len(filled_sorted) |->
                           [idx |-> filled_sorted[k].idx,
                            currentTime |-> ToDatetime(filled_sorted[k].currentTime),
                            cumulative_pnl |-> CumSum(filled_sorted, k)]]
    /\ pc' = "print_total"
    /\ UNCHANGED <<columns, raw, exc, data, filled, total_pnl, pnl_by_asset,
                   i, image, out>>

CumulativeGrossPnlKeyError ==
    /\ Running("cumulative")
    /\ "currentTime" \notin columns
    /\ Raise("KeyError")

PrintTotal ==
    /\ Running("print_total")
    /\ out' = Append(out, Line("total", "", total_pnl))
    /\ pc' = "print_header"
    /\ UNCHANGED <<columns, raw, exc, data, filled, total_pnl, pnl_by_asset,
                   cumulative, i, image>>

PrintHeader ==
    /\ Running("print_header")
    /\ out' = Append(out, Line("header", "", 0))
    /\ i' = 1
    /\ pc' = IF pnl_by_asset = <<>> THEN "plot" ELSE "print_asset"
    /\ UNCHANGED <<columns, raw, exc, data, filled, total_pnl, pnl_by_asset,
                   cumulative, image>>

PrintAsset ==
    /\ Running("print_asset")
    /\ out' = Append(out, Line("asset", pnl_by_asset[i].asset, pnl_by_asset[i].pnl))
    /\ i' = i + 1
    /\ pc' = IF i = Len(pnl_by_asset) THEN "plot" ELSE "print_asset"
    /\ UNCHANGED <<columns, raw, exc, data, filled, total_pnl, pnl_by_asset,
                   cumulative, image>>

\* A main that plots before it prints the results.
PlotBeforePrinting ==
    /\ Running("print_total")
    /\ image' = "written"
    /\ pc' = "confirm"
    /\ UNCHANGED <<columns, raw, exc, data, filled, total_pnl, pnl_by_asset,
                   cumulative, i, out>>

\* plot_cumulative_pnl when savefig can write the file
PlotCumulativePnl ==
    /\ Running("plot")
    /\ image' = "written"
    /\ pc' = "confirm"
    /\ UNCHANGED <<columns, raw, exc, data, filled, total_pnl, pnl_by_asset,
                   cumulative, i, out>>

\* plot_cumulative_pnl when savefig cannot: it raises OSError
PlotCumulativePnlError ==
    /\ Running("plot")
    /\ Raise("OSError")

PrintSaved ==
    /\ Running("confirm")
    /\ out' = Append(out, Line("saved", OutputImage, 0))
    /\ pc' = "done"
    /\ UNCHANGED <<columns, raw, exc, data, filled, total_pnl, pnl_by_asset,
                   cumulative, i, image>>

Next ==
    \/ LoadData
    \/ LoadDataKeyError
    \/ CalculateFilledTrades
    \/ CalculateFilledTradesKeyError
    \/ TotalGrossPnl
    \/ GrossPnlByAsset
    \/ GrossPnlByAssetKeyError
    \/ CumulativeGrossPnl
    \/ CumulativeGrossPnlKeyError
    \/ PrintTotal
    \/ PrintHeader
    \/ PrintAsset
    \/ PlotCumulativePnl
    \/ PlotCumulativePnlError
    \/ PrintSaved

Spec == Init /\ [][Next]_vars

SpecPnl == InitPnl /\ [][Next]_vars

SpecSeries == InitSeries /\ [][Next]_vars

SpecDriver == InitDriver /\ [][Next]_vars

----------------------------------------------------------------------------
(* Properties *)

Idxs(s) == {s[k].idx : k \in 1..Len(s)}

\* The row of the log file with index label ix.
RawRow(ix) == raw[ix + 1]

\* Sum of signed_pnl over the rows of filled at the positions in S.
RECURSIVE PnlOver(_)
PnlOver(S) ==
    IF S = {} THEN 0
    ELSE LET k == CHOOSE x \in S : TRUE
         IN  filled[k].signed_pnl + PnlOver(S \ {k})

\* Sum of the per-instrument totals of a grouped Series.
RECURSIVE ItemsSum(_)
ItemsSum(items) == IF items = <<>> THEN 0 ELSE Head(items).pnl + ItemsSum(Tail(items))

\* The raw timestamp of the filled trade behind row k of the cumulative series.
TimeOfSeriesRow(k) ==
    (CHOOSE r \in {filled[j] : j \in 1..Len(filled)} :
        r.idx = cumulative[k].idx).currentTime

\* The cell is the text of an integer.
NumberText(t) ==
    LET body == IF t # <<>> /\ Head(t) = "-" THEN Tail(t) ELSE t
    IN  /\ body # <<>>
        /\ \A k \in 1..Len(body) :
              body[k] \in {"0", "1", "2", "3", "4", "5", "6", "7", "8", "9"}

\* Index labels of the raw rows with a non-numeric tradePx or tradeAmt.
InvalidIdx ==
    {raw[k].idx : k \in {j \in 1..Len(raw) :
        ~NumberText(raw[j].tradePx) \/ ~NumberText(raw[j].tradeAmt)}}

Printed(kind) == SelectSeq(out, LAMBDA l : l.kind = kind)

RenderInvoked == image = "written" \/ exc = "OSError"

\* C1: once the cumulative series is built from a non-empty filled table, the
\* total equals the sum of signed_pnl over all rows of the table and equals
\* the cumulative_pnl of the last row of the series.
C1_TotalIsSumAndLastCumulative ==
    (Returned("cumulative") /\ filled # <<>>) =>
        /\ total_pnl = PnlOver(1..Len(filled))
        /\ total_pnl = cumulative[Len(cumulative)].cumulative_pnl

C1_Witness ==
    /\ Returned("cumulative")
    /\ Len(filled) >= 2
    /\ total_pnl # 0
    /\ cumulative[1].idx # filled[1].idx

\* C2: every row of the filled table has signed_pnl = tradePx * tradeAmt * sign,
\* with sign -1 for orderSide "buy" and +1 for every other orderSide.
C2_SignedPnlRule ==
    Returned("filter") =>
        \A k \in 1..Len(filled) :
            filled[k].signed_pnl =
                filled[k].tradePx[1] * filled[k].tradeAmt[1]
                    * (IF filled[k].orderSide = "buy" THEN -1 ELSE 1)

C2_Witness ==
    /\ Returned("filter")
    /\ \E k \in 1..Len(filled) : filled[k].orderSide = "hold" /\ filled[k].signed_pnl > 0
    /\ \E k \in 1..Len(filled) : filled[k].orderSide = "buy" /\ filled[k].signed_pnl < 0

\* C3: the per-instrument totals partition the grand total: their sum equals
\* total_pnl for every filled table, also one with rows whose orderProduct is
\* missing.
C3_GroupingIsPartition ==
    Returned("by_asset") => ItemsSum(pnl_by_asset) = total_pnl

\* C4 (as claimed): the running total of every row of the series is the sum of
\* signed_pnl over all filled trades whose timestamp is at most that row's.
C4_RunningTotalByTimestamp ==
    Returned("cumulative") =>
        \A k \in 1..Len(cumulative) :
            cumulative[k].cumulative_pnl =
                PnlOver({j \in 1..Len(filled) :
                            filled[j].currentTime <= TimeOfSeriesRow(k)})

\* C4 (amended): the running total of a row of the series that is the last
\* one with its timestamp is the sum of signed_pnl over all filled trades
\* whose timestamp is at most that row's.
C4_RunningTotalAtLastOfTimestamp ==
    Returned("cumulative") =>
        \A k \in 1..Len(cumulative) :
            (k = Len(cumulative) \/ TimeOfSeriesRow(k) < TimeOfSeriesRow(k + 1)) =>
                cumulative[k].cumulative_pnl =
                    PnlOver({j \in 1..Len(filled) :
                                filled[j].currentTime <= TimeOfSeriesRow(k)})

C4_Witness ==
    /\ Returned("cumulative")
    /\ Len(cumulative) = 3
    /\ TimeOfSeriesRow(1) < TimeOfSeriesRow(2)
    /\ TimeOfSeriesRow(2) = TimeOfSeriesRow(3)
    /\ cumulative[2].cumulative_pnl # cumulative[3].cumulative_pnl
    /\ cumulative[1].idx # filled[1].idx

\* C5: the sort is stable: two filled trades with equal currentTime appear in
\* the series in the same relative order as in the filled table.
C5_SortIsStable ==
    Returned("cumulative") =>
        \A a, b \in 1..Len(cumulative) :
            (a < b /\ TimeOfSeriesRow(a) = TimeOfSeriesRow(b)) =>
                cumulative[a].idx < cumulative[b].idx

\* C6: the series has as many rows as the filled table and its timestamps are
\* non-decreasing from the first row to the last.
C6_SameLengthAndAscending ==
    Returned("cumulative") =>
        /\ Len(cumulative) = Len(filled)
        /\ \A a, b \in 1..Len(cumulative) :
              a < b => TimeLe(cumulative[a].currentTime, cumulative[b].currentTime)

C6_Witness ==
    /\ Returned("cumulative")
    /\ Len(filled) >= 2
    /\ filled[1].currentTime > filled[Len(filled)].currentTime
    /\ cumulative[1].currentTime.sec < cumulative[Len(cumulative)].currentTime.sec

\* C7: load_data keeps exactly the rows whose tradePx and tradeAmt are both
\* numeric, the dropped rows appear in nothing computed afterwards, and the
\* warning, printed when rows were dropped, states their number.
C7_InvalidRowsDroppedAndCounted ==
    Returned("load") =>
        /\ Idxs(data) = Idxs(raw) \ InvalidIdx
        /\ Len(data) = Cardinality(Idxs(data))
        /\ Idxs(filled) \cap InvalidIdx = {}
        /\ Idxs(cumulative) \cap InvalidIdx = {}
        /\ Returned("total") =>
              total_pnl = PnlOver({k \in 1..Len(filled) : filled[k].idx \notin InvalidIdx})
        /\ Printed("warning") =
              IF InvalidIdx = {} THEN <<>>
              ELSE <<Line("warning", "", Cardinality(InvalidIdx))>>

C7_Witness ==
    /\ pc = "done"
    /\ Cardinality(InvalidIdx) = 2
    /\ Len(filled) = 1
    /\ \E k \in 1..Len(raw) : raw[k].tradePx = <<>>
    /\ \E k \in 1..Len(raw) : raw[k].tradePx # <<>> /\ raw[k].tradeAmt = <<"x">>

\* C8: when a required column is absent from the header, load_data fails, so
\* the run never gets past the loader: nothing is filtered, aggregated or
\* printed as a result.
C8_LoaderRejectsMissingColumn ==
    columns # Required =>
        /\ pc = "load"
        /\ Printed("total") = <<>>
        /\ Printed("asset") = <<>>

\* C9: rows whose action is not "filled" are not in the filled table, and so
\* are behind neither the total, nor a per-instrument total, nor a row of the
\* cumulative series.
C9_OnlyFilledRowsCounted ==
    /\ Returned("filter") =>
          \A k \in 1..Len(filled) : RawRow(filled[k].idx).action = "filled"
    /\ Returned("total") =>
          total_pnl = PnlOver({k \in 1..Len(filled) :
                                  RawRow(filled[k].idx).action = "filled"})
    /\ Returned("by_asset") =>
          \A g \in 1..Len(pnl_by_asset) :
              pnl_by_asset[g].pnl =
                  PnlOver({k \in 1..Len(filled) :
                              /\ RawRow(filled[k].idx).action = "filled"
                              /\ filled[k].orderProduct = pnl_by_asset[g].asset})
    /\ Returned("cumulative") =>
          \A k \in 1..Len(cumulative) : RawRow(cumulative[k].idx).action = "filled"

C9_Witness ==
    /\ pc = "done"
    /\ \E k \in 1..Len(raw) : raw[k].action = "cancelled" /\ raw[k].orderProduct = "BBB"
    /\ \E k \in 1..Len(filled) : filled[k].orderProduct = "AAA"
    /\ Len(pnl_by_asset) = 1

\* C10: the renderer is invoked only after the total, the per-instrument
\* totals and the cumulative series are computed and the total line and every
\* per-instrument line are printed; the confirmation line is printed only
\* after the renderer has returned without error.
C10_RenderLastConfirmAfterRender ==
    /\ RenderInvoked =>
          /\ Returned("cumulative")
          /\ Printed("total") = <<Line("total", "", total_pnl)>>
          /\ Printed("asset") =
                [g \in 1..Len(pnl_by_asset) |->
                    Line("asset", pnl_by_asset[g].asset, pnl_by_asset[g].pnl)]
    /\ Printed("saved") # <<>> => (image = "written" /\ exc = "none")

C10_Witness ==
    /\ exc = "OSError"
    /\ Len(pnl_by_asset) = 2
    /\ Len(Printed("asset")) = 2
    /\ Printed("saved") = <<>>

====
